---------------------------- MODULE Spec2Model ----------------------------
(***************************************************************************)
(* Model of the x402 token scanner bot (src/bot.py): the Security          *)
(* Evaluator (security_scan and its two checks), the two source adapters   *)
(* (scan_x402_trending, scan_dexscreener_trending), the scan orchestrator  *)
(* (auto_scan_loop) with its rate limiter, security gate, notifier         *)
(* hand-off and per-cycle cleanup of scanned_tokens / last_scan_time.      *)
(*                                                                         *)
(* Time is the wall clock in seconds (datetime.now().timestamp()); it is   *)
(* assumed not to run backwards.  The clock advances while the loop sleeps *)
(* (300 s after a cycle, 60 s after an error, 3 s after an alert); a sleep *)
(* may overshoot, so the wake-up instant is drawn from Instants.           *)
(***************************************************************************)
EXTENDS Integers, Sequences, FiniteSets, TLC

VARIABLES
    pc,               \* position of auto_scan_loop
    clock,            \* wall clock, seconds
    scan_number,      \* auto_scan_loop: scan_number
    all_opportunities,\* auto_scan_loop: all_opportunities of the current cycle
    idx,              \* 1-based position of the for loop over all_opportunities
    scanned_tokens,   \* global scanned_tokens (dedup set of token ids)
    last_scan_time,   \* global last_scan_time (token id -> timestamp)
    alerts_sent,      \* scan_stats["alerts_sent"]
    alerts,           \* history: every hand-off to send_opportunity_alert
    last,             \* history: what the latest loop iteration did
    probe,            \* what the providers answer to the calls under examination
    security          \* the verdict that security_scan returned

vars == <<pc, clock, scan_number, all_opportunities, idx, scanned_tokens,
          last_scan_time, alerts_sent, alerts, last, probe, security>>

---------------------------------------------------------------------------
(* Bounds of the model *)

\* number of scan cycles explored
MaxScans == 3
\* identities tracked by the long-running states of SpecCapacity
MaxLoaded == 1002
\* candidates one adapter returns in one cycle (the code caps both at 10)
MaxFound == 2

\* raw items in the longest x402 answer examined (the code reads 10)
MaxTokens == 11
\* raw pairs in the longest DexScreener answer examined (the code reads 30)
MaxPairs == 31

\* contract addresses the providers may report
Contracts == {"0xa"}


---------------------------------------------------------------------------
(* Program constants *)

COOLDOWN == 3600          \* rate-limit window, seconds
SECURITY_GATE == 50       \* minimum score for an alert
LOW_RISK_SCORE == 75
MEDIUM_SCORE == 50
CAPACITY == 1000          \* len(scanned_tokens) that triggers the trim
KEEP == 500               \* entries kept by the trim
HORIZON == 86400          \* age purge of last_scan_time, seconds
SCAN_INTERVAL == 300
RETRY_DELAY == 60
ALERT_PAUSE == 3

\* Instants at which the loop may read the clock: the start of the epoch
\* and half a cooldown later, then an instant T late enough for a long run
\* to precede it, T plus half a cooldown, plus exactly one cooldown, plus a
\* cooldown and 100 s, and plus exactly the purge horizon.
FirstAlertAt == 6 * COOLDOWN + 100
StartTimes == {0, FirstAlertAt}
Instants ==
    {0, COOLDOWN \div 2, FirstAlertAt, FirstAlertAt + COOLDOWN \div 2,
     FirstAlertAt + COOLDOWN, FirstAlertAt + COOLDOWN + 100,
     FirstAlertAt + HORIZON}

---------------------------------------------------------------------------
(* Security Evaluator *)

\* A check message: the emoji it starts with and its text.
Msg(icon, text) == [icon |-> icon, text |-> text]

\* check_honeypot: every (safe, message) pair it can return.
\* safe is Python's True / False / None.
HoneypotResults ==
    { [safe |-> "None",  msg |-> Msg("warn",  "API error")],
      [safe |-> "False", msg |-> Msg("alarm", "HONEYPOT!")],
      [safe |-> "False", msg |-> Msg("warn",  "Tax")],
      [safe |-> "True",  msg |-> Msg("ok",    "Tax")],
      [safe |-> "None",  msg |-> Msg("warn",  "Timeout")] }

\* check_liquidity_dex: every (safe, message, pair_data) triple it can
\* return; pair is whether pair_data is not None.
LiquidityResults ==
    { [safe |-> "None",  msg |-> Msg("warn",  "No data"),      pair |-> FALSE],
      [safe |-> "False", msg |-> Msg("cross", "No Base pool"), pair |-> FALSE],
      [safe |-> "False", msg |-> Msg("warn",  "Low liq"),      pair |-> TRUE],
      [safe |-> "True",  msg |-> Msg("ok",    "Liq"),          pair |-> TRUE],
      [safe |-> "None",  msg |-> Msg("warn",  "Failed"),       pair |-> FALSE] }

\* Where security_scan's try block raises: nowhere, when the session is
\* opened (before the first check), or while token_info is built from
\* pair_data / the session is closed (after both checks).
ScanErrors == {"none", "before", "after"}

\* Python truthiness of a check result: `if hp_safe:`
Truthy(safe) == safe = "True"

\* c.startswith("❌")
StartsWithCross(msg) == msg.icon = "cross"

\* Mutant of ScoreOf: divides by the number of checks run, not by total.
ScoreOfFixedDenominator(passed, total) ==
    IF total > 0 THEN (passed * 100) \div 2 ELSE 0

\* (passed / total * 100) if total > 0 else 0.  passed <= 2 and total <= 2,
\* so the float quotient is exactly 0, 50 or 100.
ScoreOf(passed, total) ==
    IF total > 0 THEN (passed * 100) \div total ELSE 0

\* Mutant of RiskLevel: strict comparisons.
RiskLevelStrict(score) ==
    IF score > LOW_RISK_SCORE THEN [level |-> "LOW RISK", rec |-> "SAFE"]
    ELSE IF score > MEDIUM_SCORE THEN [level |-> "MEDIUM", rec |-> "CAUTION"]
    ELSE [level |-> "HIGH RISK", rec |-> "AVOID"]

RiskLevel(score) ==
    IF score >= LOW_RISK_SCORE THEN [level |-> "LOW RISK", rec |-> "SAFE"]
    ELSE IF score >= MEDIUM_SCORE THEN [level |-> "MEDIUM", rec |-> "CAUTION"]
    ELSE [level |-> "HIGH RISK", rec |-> "AVOID"]

\* len([c for c in checks if not c.startswith("❌")])
CountNotCross(checks) ==
    Cardinality({i \in 1..Len(checks) : ~StartsWithCross(checks[i])})

security_scan(hp, liq, err) ==
    LET ran    == err # "before"
        checks == (IF ran THEN <<hp.msg, liq.msg>> ELSE <<>>)
                  \o (IF err = "none" THEN <<>>
                      ELSE <<Msg("cross", "Scan error")>>)
        passed == IF ran
                  THEN (IF Truthy(hp.safe) THEN 1 ELSE 0)
                       + (IF Truthy(liq.safe) THEN 1 ELSE 0)
                  ELSE 0
        total  == CountNotCross(checks)
        score  == ScoreOf(passed, total)
        risk   == RiskLevel(score)
    IN  [passed |-> passed, total |-> total, score |-> score,
         level |-> risk.level, rec |-> risk.rec, checks |-> checks]

\* What auto_scan_loop and send_opportunity_alert read of a verdict apart
\* from the messages: security['score'], security['level'], security['rec'].
Summary(verdict) ==
    [score |-> verdict.score, level |-> verdict.level, rec |-> verdict.rec]

NoVerdict == [score |-> 0, level |-> "none", rec |-> "none"]

\* Every verdict security_scan can return, without its messages.
PossibleVerdicts ==
    {Summary(security_scan(hp, liq, err)) :
        hp \in HoneypotResults, liq \in LiquidityResults, err \in ScanErrors}

\* No security_scan call under examination.
NoProbe == [hp |-> "none", liq |-> "none", err |-> "none"]
NoScan == [passed |-> 0, total |-> 0, score |-> 0, level |-> "none",
           rec |-> "none", checks |-> <<>>]

---------------------------------------------------------------------------
(* Orchestrator helpers *)

Types == {"x402_trending", "dex_trending"}

Candidate(type, contract) == [type |-> type, contract |-> contract]

\* Mutant of token_id: the kind left out of the key.
token_idAddressOnly(token) == token.contract

\* token_id = f"{token['type']}_{token['contract']}"
token_id(token) == token.type \o "_" \o token.contract

\* last_scan_time.get(token_id, 0)
LastAlert(times, id) == IF id \in DOMAIN times THEN times[id] ELSE 0

\* Mutant of RateLimited: the window taken as 60 (minutes for seconds).
RateLimitedWrongUnit(now, last_alert) == now - last_alert < COOLDOWN \div 60

\* if now - last_alert < 3600: continue
RateLimited(now, last_alert) == now - last_alert < COOLDOWN

\* if token_id not in scanned_tokens or (now - last_alert) > 3600:
IsNewOpportunity(id, tokens, now, last_alert) ==
    id \notin tokens \/ (now - last_alert) > COOLDOWN

\* Mutant of GatePasses: the comparison inverted.
GateInverted(verdict) == verdict.score <= SECURITY_GATE

\* if security['score'] >= 50:
GatePasses(verdict) == verdict.score >= SECURITY_GATE

\* last_scan_time[token_id] = now
SetTime(times, id, now) ==
    [k \in DOMAIN times \cup {id} |-> IF k = id THEN now ELSE times[k]]

\* Mutant of AfterVerdict: the two tracking statements moved out of the if.
AfterVerdictAlwaysTracks(tokens, times, id, now, verdict) ==
    [alert |-> GatePasses(verdict), tokens |-> tokens \cup {id},
     times |-> SetTime(times, id, now)]

\* Lines 528-539: the alert is sent and the identity recorded inside
\* `if security['score'] >= 50`, and nothing is touched in the else branch.
AfterVerdict(tokens, times, id, now, verdict) ==
    IF GatePasses(verdict)
    THEN [alert |-> TRUE, tokens |-> tokens \cup {id},
          times |-> SetTime(times, id, now)]
    ELSE [alert |-> FALSE, tokens |-> tokens, times |-> times]

\* sequences over S of length at most n
SeqsUpTo(S, n) == UNION {[1..k -> S] : k \in 0..n}

Range(s) == {s[i] : i \in 1..Len(s)}

---------------------------------------------------------------------------
(* Source adapters: scan_x402_trending and scan_dexscreener_trending as     *)
(* functions of what the providers answer.  A candidate keeps the fields    *)
(* the adapters compute; name, symbol, price, volume, price change and url  *)
(* are copied from the provider's answer as they are and left out.          *)

X402_TOP == 10            \* tokens_found[:10]
DEX_TOP == 30             \* pairs[:30]
DEX_CAP == 10             \* buy_opportunities[:10]
X402_MCAP_LOW == 1000
X402_MCAP_HIGH == 1000000
X402_LIQ_FLOOR == 5000
DEX_MCAP_LOW == 1000
DEX_MCAP_HIGH == 500000
DEX_LIQ_FLOOR == 10000
DEX_VOL_FLOOR == 5000
DEX_PUMP == 30
DAY_MS == 86400000        \* 24 * 60 * 60 * 1000
HOUR_MS == 3600000        \* 1000 * 60 * 60

\* A key the payload does not have, and JSON null (Python None).
Missing == "<missing>"
Null == "<null>"

\* d.get(key): None when the key is absent
GetOrNone(value) == IF value = Missing THEN Null ELSE value

\* d.get(key, ""): the default when the key is absent
GetOrEmpty(value) == IF value = Missing THEN "" ELSE value

\* Python truthiness of a string or None
NotEmpty(value) == value \notin {Null, ""}

\* a or b
Either(a, b) == IF NotEmpty(a) THEN a ELSE b

\* contract.startswith("0x")
StartsWith0x(contract) ==
    Len(contract) >= 2 /\ SubSeq(contract, 1, 2) = "0x"

\* s[:n]
Take(s, n) == SubSeq(s, 1, IF Len(s) < n THEN Len(s) ELSE n)

\* The potential label, from the market cap (the same ladder in both
\* adapters).
Potential(mcap) ==
    IF mcap < 50000 THEN "1000-10000x"
    ELSE IF mcap < 100000 THEN "100-1000x"
    ELSE IF mcap < 500000 THEN "10-100x"
    ELSE "5-10x"

\* What get_token_info_dex returned for a token: nothing (None), or the
\* main pair's market cap and liquidity.
NoInfo == [found |-> FALSE, mcap |-> 0, liquidity |-> 0]
Info(mcap, liquidity) ==
    [found |-> TRUE, mcap |-> mcap, liquidity |-> liquidity]

\* A raw x402 item: a bare string (shape "str", the string in value), a
\* dict with up to three address keys (shape "dict"), or anything else
\* (shape "other"); info is what DexScreener answers for its address.
RawToken(shape, value, address, contract, token_address, info) ==
    [shape |-> shape, value |-> value, address |-> address,
     contract |-> contract, token_address |-> token_address, info |-> info]

\* Lines 235-239: the contract address of a raw item.
ContractOf(token) ==
    IF token.shape = "str" THEN token.value
    ELSE IF token.shape = "dict"
    THEN Either(Either(GetOrNone(token.address), GetOrNone(token.contract)),
                GetOrNone(token.token_address))
    ELSE Null

\* not (not contract or not contract.startswith("0x"))
UsableX402Contract(contract) == NotEmpty(contract) /\ StartsWith0x(contract)

\* is_microcap and has_liquidity of scan_x402_trending
X402Admits(info) ==
    /\ X402_MCAP_LOW < info.mcap
    /\ info.mcap < X402_MCAP_HIGH
    /\ info.liquidity > X402_LIQ_FLOOR

X402Candidate(contract, info) ==
    [type |-> "x402_trending", contract |-> contract, mcap |-> info.mcap,
     liq |-> info.liquidity, potential |-> Potential(info.mcap),
     source |-> "x402 Trending"]

\* The positions of a sequence that hold the first occurrence of a value.
FirstOccurrences(items) ==
    SelectSeq([i \in 1..Len(items) |-> i],
              LAMBDA i : \A j \in 1..(i - 1) : items[j].value # items[i].value)

\* list(set(contract_pattern.findall(text))): the distinct addresses, in
\* the iteration order of the set, which the hash seed of the process
\* fixes (order "fwd" or "rev" here).
DistinctAddresses(items, order) ==
    LET firsts == FirstOccurrences(items)
        listed == [k \in 1..Len(firsts) |-> items[firsts[k]]]
    IN  IF order = "rev"
        THEN [k \in 1..Len(listed) |-> listed[Len(listed) + 1 - k]]
        ELSE listed

\* Lines 193-226: tokens_found, by the format of the answer.  "contracts"
\* and "text" carry address strings, wrapped as {"address": addr}.
TokensFound(resp) ==
    LET wrap(items) ==
            [i \in 1..Len(items) |->
                RawToken("dict", Missing, items[i].value, Missing, Missing,
                         items[i].info)]
    IN  IF resp.format \in {"tokens", "data", "list"} THEN resp.items
        ELSE IF resp.format = "contracts" THEN wrap(resp.items)
        ELSE IF resp.format = "text"
        THEN wrap(DistinctAddresses(resp.items, resp.order))
        ELSE <<>>

\* The for loop of scan_x402_trending over tokens_found[:10].
RECURSIVE X402Opportunities(_)
X402Opportunities(tokens) ==
    IF tokens = <<>> THEN <<>>
    ELSE LET token    == Head(tokens)
             contract == ContractOf(token)
             emitted  ==
                 IF /\ UsableX402Contract(contract)
                    /\ token.info.found
                    /\ X402Admits(token.info)
                 THEN <<X402Candidate(contract, token.info)>>
                 ELSE <<>>
         IN  emitted \o X402Opportunities(Tail(tokens))

\* scan_x402_trending: [] on a non-200 status, on a timeout or any other
\* exception, and on an answer that is neither JSON nor text with an
\* address in it.
scan_x402_trending(resp) ==
    IF resp.fail # "none" THEN <<>>
    ELSE X402Opportunities(Take(TokensFound(resp), X402_TOP))

\* A raw DexScreener pair; raises marks an item on which float() or a
\* comparison raises (a malformed number, a null pairCreatedAt).
RawPair(created, mcap, liq, vol, change, address, raises) ==
    [created |-> created, mcap |-> mcap, liq |-> liq, vol |-> vol,
     change |-> change, address |-> address, raises |-> raises]

\* created_at > day_ago
IsNew(pair, now_ms) == pair.created > now_ms - DAY_MS

\* Line 339: (is_new or is_microcap) and has_liquidity and
\*           (has_volume or is_pumping)
DexAdmits(pair, now_ms) ==
    /\ \/ IsNew(pair, now_ms)
       \/ (DEX_MCAP_LOW < pair.mcap /\ pair.mcap < DEX_MCAP_HIGH)
    /\ pair.liq > DEX_LIQ_FLOOR
    /\ (pair.vol > DEX_VOL_FLOOR \/ pair.change > DEX_PUMP)

\* The integer nearest to n / d (ties to even): what "%.1f" prints of a
\* quotient, in tenths, when n is ten times the dividend.
Nearest(n, d) ==
    LET q == n \div d
        r == n % d
    IN  IF 2 * r > d \/ (2 * r = d /\ q % 2 = 1) THEN q + 1 ELSE q

\* f"{x:.1f}" followed by the unit, from x in tenths
OneDecimal(tenths, unit) ==
    ToString(tenths \div 10) \o "." \o ToString(tenths % 10) \o unit

\* Lines 358-359: age_str
AgeStr(pair, now_ms) ==
    LET age_ms == now_ms - pair.created
    IN  IF age_ms < 24 * HOUR_MS
        THEN OneDecimal(Nearest(age_ms * 10, HOUR_MS), "h")
        ELSE OneDecimal(Nearest(age_ms * 10, DAY_MS), "d")

\* Mutant of UsableDexContract: every address is taken.
UsableDexContractAny(contract) == TRUE

\* not (not contract), with contract = ....get("address", "")
UsableDexContract(contract) == NotEmpty(contract)

DexCandidate(pair, now_ms) ==
    [type |-> "dex_trending", contract |-> GetOrEmpty(pair.address),
     mcap |-> pair.mcap, liq |-> pair.liq, potential |-> Potential(pair.mcap),
     age |-> AgeStr(pair, now_ms), is_new |-> IsNew(pair, now_ms),
     source |-> "DexScreener"]

\* The for loop of scan_dexscreener_trending over pairs[:30].
RECURSIVE DexOpportunities(_, _)
DexOpportunities(pairs, now_ms) ==
    IF pairs = <<>> THEN <<>>
    ELSE LET pair    == Head(pairs)
             emitted ==
                 IF /\ ~pair.raises
                    /\ DexAdmits(pair, now_ms)
                    /\ UsableDexContract(GetOrEmpty(pair.address))
                 THEN <<DexCandidate(pair, now_ms)>>
                 ELSE <<>>
         IN  emitted \o DexOpportunities(Tail(pairs), now_ms)

\* list.sort(key=lambda x: x['mcap']): stable, ascending market cap.
RECURSIVE SortByMcap(_)
SortByMcap(list) ==
    IF list = <<>> THEN <<>>
    ELSE LET rest   == SortByMcap(Tail(list))
             x      == Head(list)
             before == SelectSeq(rest, LAMBDA y : y.mcap < x.mcap)
             after  == SelectSeq(rest, LAMBDA y : y.mcap >= x.mcap)
         IN  before \o <<x>> \o after

\* scan_dexscreener_trending at wall-clock `now` (seconds): [] on a non-200
\* status, on a timeout or any other exception, on a body that is not the
\* expected JSON.
scan_dexscreener_trending(resp, now) ==
    IF resp.fail # "none" THEN <<>>
    ELSE Take(SortByMcap(DexOpportunities(Take(resp.pairs, DEX_TOP),
                                          now * 1000)),
              DEX_CAP)

\* What the orchestrator reads of a candidate for its bookkeeping.
Tracked(list) ==
    [i \in 1..Len(list) |-> Candidate(list[i].type, list[i].contract)]

---------------------------------------------------------------------------
(* Cleanup *)

\* Every token id of the model: the ids of the candidates the adapters
\* report, then the ids of the long-running state (LoadedIds below).
KnownIds ==
    [i \in 1..(MaxLoaded + 2) |->
        IF i = 1 THEN token_id(Candidate("x402_trending", "0xa"))
        ELSE IF i = 2 THEN token_id(Candidate("dex_trending", "0xa"))
        ELSE token_id(Candidate("dex_trending", "0x" \o ToString(i)))]

Reverse(s) == [i \in 1..Len(s) |-> s[Len(s) + 1 - i]]

\* The iteration order of a Python set is fixed by the hashes of its
\* members, unknown to the program: a total order on the ids, drawn here
\* from a bounded family.
HashOrders ==
    {KnownIds, Reverse(KnownIds),
     [i \in 1..Len(KnownIds) |-> KnownIds[((i + 1) % Len(KnownIds)) + 1]]}

\* list(scanned_tokens): the set in some iteration order
ListOrders(S) ==
    {SelectSeq(h, LAMBDA x : x \in S) : h \in HashOrders}

\* set(list(scanned_tokens)[-500:])
KeepLast(listing) ==
    {listing[i] : i \in {j \in 1..Len(listing) : j > Len(listing) - KEEP}}

\* {k: v for k, v in last_scan_time.items() if v > cutoff}
Purge(times, cutoff) ==
    [k \in {x \in DOMAIN times : times[x] > cutoff} |-> times[k]]

---------------------------------------------------------------------------
(* State machine *)

NoStep == [id |-> "", now |-> 0, outcome |-> "none", scanned |-> FALSE,
           verdict |-> NoVerdict, scan |-> 0]

Init ==
    /\ pc = "start"
    /\ clock \in StartTimes
    /\ scan_number = 0
    /\ all_opportunities = <<>>
    /\ idx = 1
    /\ scanned_tokens = {}
    /\ last_scan_time = <<>>
    /\ alerts_sent = 0
    /\ alerts = {}
    /\ last = NoStep
    /\ probe = NoProbe
    /\ security = NoScan

\* The providers' answers of the cycle are given (in probe).
AnswersGiven == "x402" \in DOMAIN probe

\* What scan_x402_trending() can return to the loop: the adapter applied to
\* the provider's answer when it is given, and otherwise any short list of
\* candidates of type x402_trending (the empty list when it fails).
X402Returns ==
    IF AnswersGiven
    THEN {Tracked(scan_x402_trending(probe.x402))}
    ELSE {[i \in 1..Len(found) |-> Candidate("x402_trending", found[i])] :
             found \in SeqsUpTo(Contracts, MaxFound)}

\* What scan_dexscreener_trending() can return to the loop.
DexReturns ==
    IF AnswersGiven
    THEN {Tracked(scan_dexscreener_trending(probe.dex, clock))}
    ELSE {[i \in 1..Len(found) |-> Candidate("dex_trending", found[i])] :
             found \in SeqsUpTo(Contracts, MaxFound)}

\* Top of the while loop and scan_x402_trending().
ScanX402 ==
    /\ pc = "start"
    /\ scan_number < MaxScans
    /\ scan_number' = scan_number + 1
    /\ \E x402_tokens \in X402Returns : all_opportunities' = x402_tokens
    /\ idx' = 1
    /\ pc' = "dex"
    /\ UNCHANGED <<clock, scanned_tokens, last_scan_time, alerts_sent,
                   alerts, last, probe, security>>

\* Mutant of ScanDex: DexScreener is scanned only when x402 found something.
ScanDexAfterX402Success ==
    /\ pc = "dex"
    /\ \E dex_tokens \in DexReturns :
          all_opportunities' =
             IF all_opportunities = <<>> THEN <<>>
             ELSE all_opportunities \o dex_tokens
    /\ pc' = "process"
    /\ UNCHANGED <<clock, scan_number, idx, scanned_tokens, last_scan_time,
                   alerts_sent, alerts, last, probe, security>>

\* scan_dexscreener_trending(): candidates of type dex_trending.
ScanDex ==
    /\ pc = "dex"
    /\ \E dex_tokens \in DexReturns :
          all_opportunities' = all_opportunities \o dex_tokens
    /\ pc' = "process"
    /\ UNCHANGED <<clock, scan_number, idx, scanned_tokens, last_scan_time,
                   alerts_sent, alerts, last, probe, security>>

\* One iteration of `for token in all_opportunities`.  verdict is the
\* verdict security_scan returns for this address at this moment, sent is
\* whether bot.send_message succeeds.
ProcessToken ==
    /\ pc = "process"
    /\ idx <= Len(all_opportunities)
    /\ LET token      == all_opportunities[idx]
           id         == token_id(token)
           last_alert == LastAlert(last_scan_time, id)
           now        == clock
       IN  \E verdict \in PossibleVerdicts, sent \in BOOLEAN :
           LET step(outcome, scanned) ==
                   [id |-> id, now |-> now, outcome |-> outcome,
                    scanned |-> scanned, verdict |-> verdict,
                    scan |-> scan_number]
               after == AfterVerdict(scanned_tokens, last_scan_time, id, now,
                                     verdict)
           IN  IF RateLimited(now, last_alert)
               THEN /\ last' = step("rate_limited", FALSE)
                    /\ UNCHANGED <<clock, scanned_tokens, last_scan_time,
                                   alerts_sent, alerts>>
               ELSE IF ~IsNewOpportunity(id, scanned_tokens, now, last_alert)
               THEN /\ last' = step("not_new", FALSE)
                    /\ UNCHANGED <<clock, scanned_tokens, last_scan_time,
                                   alerts_sent, alerts>>
               ELSE /\ scanned_tokens' = after.tokens
                    /\ last_scan_time' = after.times
                    /\ IF after.alert
                       THEN /\ alerts' = alerts \cup
                                  {[n |-> Cardinality(alerts) + 1, id |-> id,
                                    at |-> now, ok |-> sent]}
                            /\ alerts_sent' =
                                  alerts_sent + (IF sent THEN 1 ELSE 0)
                            /\ clock' = clock + ALERT_PAUSE
                            /\ last' = step("alerted", TRUE)
                       ELSE /\ last' = step("rejected", TRUE)
                            /\ UNCHANGED <<clock, alerts_sent, alerts>>
    /\ idx' = idx + 1
    /\ UNCHANGED <<pc, scan_number, all_opportunities, probe, security>>

\* The cleanup after the for loop, then the loop goes to sleep.
Cleanup ==
    /\ pc = "process"
    /\ idx > Len(all_opportunities)
    /\ IF Cardinality(scanned_tokens) > CAPACITY
       THEN \E listing \in ListOrders(scanned_tokens) :
               scanned_tokens' = KeepLast(listing)
       ELSE UNCHANGED scanned_tokens
    /\ last_scan_time' = Purge(last_scan_time, clock - HORIZON)
    /\ pc' = "sleep"
    /\ UNCHANGED <<clock, scan_number, all_opportunities, idx, alerts_sent,
                   alerts, last, probe, security>>

\* Mutant of Sleep: the sleep never ends.
SleepNeverEnds ==
    /\ pc = "sleep"
    /\ UNCHANGED vars

\* await asyncio.sleep(300)
Sleep ==
    /\ pc = "sleep"
    /\ \E t \in Instants :
          /\ t >= clock + SCAN_INTERVAL
          /\ clock' = t
    /\ pc' = "start"
    /\ UNCHANGED <<scan_number, all_opportunities, idx, scanned_tokens,
                   last_scan_time, alerts_sent, alerts, last, probe, security>>

\* Mutant of ScanLoopError: the loop restarts at once, without a sleep.
ScanLoopErrorRestartsAtOnce ==
    /\ pc = "process"
    /\ pc' = "start"
    /\ UNCHANGED <<clock, scan_number, all_opportunities, idx, scanned_tokens,
                   last_scan_time, alerts_sent, alerts, last, probe, security>>

\* An exception escapes the body of the cycle: except Exception.  The two
\* adapters catch every exception themselves, so it is raised in the for
\* loop.
ScanLoopError ==
    /\ pc = "process"
    /\ pc' = "retry"
    /\ UNCHANGED <<clock, scan_number, all_opportunities, idx, scanned_tokens,
                   last_scan_time, alerts_sent, alerts, last, probe, security>>

\* Mutant of RetrySleep: the retry does not wait.
RetryWithoutDelay ==
    /\ pc = "retry"
    /\ pc' = "start"
    /\ UNCHANGED <<clock, scan_number, all_opportunities, idx, scanned_tokens,
                   last_scan_time, alerts_sent, alerts, last, probe, security>>

\* await asyncio.sleep(60)
RetrySleep ==
    /\ pc = "retry"
    /\ \E t \in Instants :
          /\ t >= clock + RETRY_DELAY
          /\ clock' = t
    /\ pc' = "start"
    /\ UNCHANGED <<scan_number, all_opportunities, idx, scanned_tokens,
                   last_scan_time, alerts_sent, alerts, last, probe, security>>

Next ==
    \/ ScanX402
    \/ ScanDex
    \/ ProcessToken
    \/ Cleanup
    \/ Sleep
    \/ ScanLoopError
    \/ RetrySleep

Spec == Init /\ [][Next]_vars

\* Every outbound call returns or times out and every sleep ends: a step of
\* the loop that can be taken is eventually taken.  No error has to occur.
Fairness ==
    /\ WF_vars(ScanX402)
    /\ WF_vars(ScanDex)
    /\ WF_vars(ProcessToken)
    /\ WF_vars(Cleanup)
    /\ WF_vars(Sleep)
    /\ WF_vars(RetrySleep)

\* The loop at the top of its next-to-last cycle of the model: the cycles
\* before found nothing and the last sleep ended at FirstAlertAt.
InitLive ==
    /\ pc = "start"
    /\ clock = FirstAlertAt
    /\ scan_number = MaxScans - 2
    /\ all_opportunities = <<>>
    /\ idx = 1
    /\ scanned_tokens = {}
    /\ last_scan_time = <<>>
    /\ alerts_sent = 0
    /\ alerts = {}
    /\ last = NoStep
    /\ probe = NoProbe
    /\ security = NoScan

SpecLive == InitLive /\ [][Next]_vars /\ Fairness

---------------------------------------------------------------------------
(* The loop after a long run: the last candidate of a cycle has just been  *)
(* alerted and n identities are tracked, notified 20 per cycle, 3 s apart, *)
(* one cycle every 360 s, the newest at FirstAlertAt.  alerts starts       *)
(* empty: it records the hand-offs made from here on.  From these states   *)
(* the cleanup and the sleep that follows it are applied.                  *)

LoadedSizes == {CAPACITY - 1, CAPACITY, CAPACITY + 1, MaxLoaded}

\* The ids tracked: KnownIds[3..n+2], or with the two adapter ids as the
\* two oldest (slot "old") or the two newest (slot "new") of the n.
LoadedIds(n, slot) ==
    IF slot = "old" THEN [i \in 1..n |-> KnownIds[i]]
    ELSE IF slot = "new"
    THEN [i \in 1..n |-> IF i > n - 2 THEN KnownIds[i - (n - 2)]
                                     ELSE KnownIds[i + 2]]
    ELSE [i \in 1..n |-> KnownIds[i + 2]]

\* When the i-th oldest of n was notified.
LoadedTime(n, i) ==
    FirstAlertAt - (SCAN_INTERVAL + 20 * ALERT_PAUSE) * ((n - i) \div 20)
                 - ALERT_PAUSE * ((n - i) % 20)

InitCapacity ==
    \E n \in LoadedSizes, slot \in {"old", "new", "none"} :
        LET ids == LoadedIds(n, slot) IN
        /\ pc = "process"
        /\ clock = FirstAlertAt + ALERT_PAUSE
        /\ scan_number = MaxScans
        /\ all_opportunities = <<Candidate("dex_trending", "0xa")>>
        /\ idx = 2
        /\ scanned_tokens = Range(ids)
        /\ last_scan_time =
              [k \in Range(ids) |->
                  LoadedTime(n, CHOOSE i \in 1..n : ids[i] = k)]
        /\ alerts_sent = n
        /\ alerts = {}
        /\ last = NoStep
        /\ probe = NoProbe
        /\ security = NoScan

NextCapacity ==
    \/ Cleanup
    \/ Sleep

SpecCapacity == InitCapacity /\ [][NextCapacity]_vars

---------------------------------------------------------------------------
(* One security_scan call in isolation: the providers' answers are drawn   *)
(* from every outcome the two checks can return, and the call is applied.  *)

InitScan ==
    /\ pc = "scan"
    /\ clock = 0
    /\ scan_number = 0
    /\ all_opportunities = <<>>
    /\ idx = 1
    /\ scanned_tokens = {}
    /\ last_scan_time = <<>>
    /\ alerts_sent = 0
    /\ alerts = {}
    /\ last = NoStep
    /\ probe \in [hp : HoneypotResults, liq : LiquidityResults, err : ScanErrors]
    /\ security = NoScan

Evaluate ==
    /\ pc = "scan"
    /\ security' = security_scan(probe.hp, probe.liq, probe.err)
    /\ pc' = "scanned"
    /\ UNCHANGED <<clock, scan_number, all_opportunities, idx, scanned_tokens,
                   last_scan_time, alerts_sent, alerts, last, probe>>

NextScan == Evaluate

SpecScan == InitScan /\ [][NextScan]_vars

---------------------------------------------------------------------------
(* The providers' answers the adapters are examined on *)

\* The instant (seconds) the new pools of the model were created, a day
\* into the epoch so that a pool with no creation time (0) is not new, and
\* the instants at which an adapter is called: one hour and exactly 24 h
\* later.
Launch == HORIZON
AdapterTimes == {Launch + COOLDOWN, Launch + HORIZON}

\* How a provider call fails: a non-200 status, a timeout or another
\* exception, a body that cannot be used.
Failures == {"status", "timeout", "malformed"}

X402Down(kind) ==
    [fail |-> kind, format |-> "tokens", items |-> <<>>, order |-> "fwd"]
X402Answer(format, items, order) ==
    [fail |-> "none", format |-> format, items |-> items, order |-> order]

DexDown(kind) == [fail |-> kind, pairs |-> <<>>]
DexAnswer(pairs) == [fail |-> "none", pairs |-> pairs]

\* A token DexScreener knows as a microcap with enough liquidity.
GoodInfo == Info(2000, 5001)

X402Infos ==
    {NoInfo, GoodInfo, Info(1000, 5001), Info(1000000, 5001),
     Info(2000, 5000), Info(60000, 6000)}

StrToken(value, info) ==
    RawToken("str", value, Missing, Missing, Missing, info)

X402Tokens ==
    {StrToken(v, i) : v \in {"0xa", "0xA", "a0x", ""}, i \in X402Infos}
    \cup {RawToken("dict", Missing, a, c, t, i) :
             a \in {Missing, Null, "", "0xa"}, c \in {Missing, "0xb"},
             t \in {Missing, "0xA"}, i \in X402Infos}
    \cup {RawToken("other", Missing, Missing, Missing, Missing, GoodInfo)}

\* n tokens, all of them admitted
LongTokens(n) ==
    [i \in 1..n |-> StrToken("0x" \o ToString(i), Info(2000 + i, 5001))]

X402Responses ==
    {X402Down(k) : k \in Failures}
    \cup {X402Answer(f, <<t>>, "fwd") :
             f \in {"tokens", "data", "list", "other"}, t \in X402Tokens}
    \cup {X402Answer("contracts", <<StrToken(v, GoodInfo),
                                    StrToken(w, GoodInfo)>>, "fwd") :
             v, w \in {"0xa", "0xA", ""}}
    \cup {X402Answer("text", <<StrToken(u, GoodInfo), StrToken(v, GoodInfo),
                               StrToken(w, GoodInfo)>>, o) :
             u, v, w \in {"0xa", "0xA"}, o \in {"fwd", "rev"}}
    \cup {X402Answer("list", LongTokens(n), "fwd") :
             n \in {X402_TOP, MaxTokens}}

\* Pairs around every threshold of the filter, created at Launch or with no
\* creation time (0), with and without an address.
RawPairs ==
    {RawPair(c, m, l, v, ch, a, FALSE) :
        c \in {0, Launch * 1000}, m \in {1000, 2000, 500000},
        l \in {10000, 10001}, v \in {5000, 5001}, ch \in {30, 31},
        a \in {"", "0xa"}}
    \cup {RawPair(Launch * 1000, 2000, 10001, 5001, 31, a, r) :
             a \in {Missing, Null, "0xA"}, r \in BOOLEAN}

\* Pairs that pass the filter at both instants: older and newer, smaller
\* and larger.
ListedPairs ==
    {RawPair(c, m, 10001, 5001, 31, "0xa", FALSE) :
        c \in {0, Launch * 1000}, m \in {2000, 3000}}

\* n pairs that pass the filter, of descending market cap, every second
\* one created at Launch.
LongPairs(n) ==
    [i \in 1..n |->
        RawPair(IF i % 2 = 0 THEN Launch * 1000 ELSE 0, 2000 + (n - i),
                10001, 5001, 31, "0x" \o ToString(i), FALSE)]

DexResponses ==
    {DexDown(k) : k \in Failures}
    \cup {DexAnswer(<<p>>) : p \in RawPairs}
    \cup {DexAnswer(s) : s \in [1..2 -> ListedPairs] \cup [1..3 -> ListedPairs]}
    \cup {DexAnswer(LongPairs(n)) : n \in {DEX_CAP + 1, DEX_TOP, MaxPairs}}

---------------------------------------------------------------------------
(* The adapters in isolation: the provider's answer and the time of the     *)
(* call are drawn, the adapter is called, and called again later; last.now  *)
(* keeps the time of the latest call.                                       *)

InitAdapter ==
    /\ pc = "adapter"
    /\ clock \in AdapterTimes
    /\ scan_number = 0
    /\ all_opportunities = <<>>
    /\ idx = 1
    /\ scanned_tokens = {}
    /\ last_scan_time = <<>>
    /\ alerts_sent = 0
    /\ alerts = {}
    /\ last = NoStep
    /\ probe \in {[x402 |-> r, dex |-> DexDown("status")] : r \in X402Responses}
                 \cup {[x402 |-> X402Down("status"), dex |-> r] :
                          r \in DexResponses}
    /\ security = NoScan

\* x402_tokens = await scan_x402_trending()
CallX402 ==
    /\ pc \in {"adapter", "x402_called"}
    /\ all_opportunities' = scan_x402_trending(probe.x402)
    /\ pc' = "x402_called"
    /\ last' = [NoStep EXCEPT !.now = clock, !.outcome = "called"]
    /\ UNCHANGED <<clock, scan_number, idx, scanned_tokens, last_scan_time,
                   alerts_sent, alerts, probe, security>>

\* dex_tokens = await scan_dexscreener_trending()
CallDex ==
    /\ pc \in {"adapter", "dex_called"}
    /\ all_opportunities' = scan_dexscreener_trending(probe.dex, clock)
    /\ pc' = "dex_called"
    /\ last' = [NoStep EXCEPT !.now = clock, !.outcome = "called"]
    /\ UNCHANGED <<clock, scan_number, idx, scanned_tokens, last_scan_time,
                   alerts_sent, alerts, probe, security>>

\* Time passes between two calls.
Elapse ==
    /\ pc \in {"x402_called", "dex_called"}
    /\ \E t \in AdapterTimes :
          /\ t > clock
          /\ clock' = t
    /\ UNCHANGED <<pc, scan_number, all_opportunities, idx, scanned_tokens,
                   last_scan_time, alerts_sent, alerts, last, probe, security>>

NextAdapter ==
    \/ CallX402
    \/ CallDex
    \/ Elapse

SpecAdapter == InitAdapter /\ [][NextAdapter]_vars

---------------------------------------------------------------------------
(* One cycle of the loop on given answers of the two providers, from an     *)
(* empty tracking state.                                                    *)

\* A pair that passes the DexScreener filter at every instant.
GoodPair(address) == RawPair(0, 2000, 10001, 5001, 31, address, FALSE)

CycleX402Answers ==
    {X402Down(k) : k \in Failures}
    \cup {X402Answer("tokens", <<>>, "fwd"),
          X402Answer("list", <<StrToken("0xa", GoodInfo)>>, "fwd"),
          X402Answer("list", <<StrToken("0xA", GoodInfo),
                               StrToken("0xa", GoodInfo)>>, "fwd")}

CycleDexAnswers ==
    {DexDown(k) : k \in Failures}
    \cup {DexAnswer(<<>>),
          DexAnswer(<<GoodPair("0xa")>>),
          DexAnswer(<<GoodPair("0xa"), GoodPair("0xA")>>)}

InitCycle ==
    /\ pc = "start"
    /\ clock = Launch + COOLDOWN
    /\ scan_number = MaxScans - 1
    /\ all_opportunities = <<>>
    /\ idx = 1
    /\ scanned_tokens = {}
    /\ last_scan_time = <<>>
    /\ alerts_sent = 0
    /\ alerts = {}
    /\ last = NoStep
    /\ probe \in [x402 : CycleX402Answers, dex : CycleDexAnswers]
    /\ security = NoScan

SpecCycle == InitCycle /\ [][Next]_vars

TypeOK ==
    /\ pc \in {"start", "dex", "process", "sleep", "retry", "scan", "scanned",
              "adapter", "x402_called", "dex_called"}
    /\ clock \in Nat
    /\ scan_number \in 0..MaxScans
    /\ idx \in 1..(Len(all_opportunities) + 1)
    /\ \A id \in DOMAIN last_scan_time : last_scan_time[id] \in 1..clock
    /\ alerts_sent \in Nat

---------------------------------------------------------------------------
(* Properties of the orchestrator, checked under Spec *)

\* A step of ProcessToken: one candidate of the current cycle is handled.
Processing == pc = "process" /\ idx' = idx + 1

\* The identity the next ProcessToken step handles.
CurrentId == token_id(all_opportunities[idx])

\* The hand-offs to the notifier made by the current step.
NewAlerts == alerts' \ alerts

C2_RecordOnlyAfterDelivery ==
    \A id \in scanned_tokens \cup DOMAIN last_scan_time :
        \E a \in alerts : a.id = id /\ a.ok

\* C3: a candidate whose verdict clears the gate and whose identity has a
\* lastNotified with now - lastNotified >= 3600 (3600 exactly included) is
\* handed to the notifier and its lastNotified becomes now.
C3_AdmittedOnceCooldownElapsed ==
    [][(/\ Processing
        /\ CurrentId \in DOMAIN last_scan_time
        /\ clock - last_scan_time[CurrentId] >= COOLDOWN
        /\ GatePasses(last'.verdict))
       => (/\ \E a \in NewAlerts : a.id = CurrentId /\ a.at = clock
           /\ CurrentId \in DOMAIN last_scan_time'
           /\ last_scan_time'[CurrentId] = clock)]_vars

\* C4: a candidate whose identity has no record (neither in scanned_tokens
\* nor in last_scan_time) is never suppressed by the rate limiter, at any
\* clock value; if its verdict clears the gate it is handed to the notifier.
C4_UnknownIdentityNeverSuppressed ==
    [][(/\ Processing
        /\ CurrentId \notin scanned_tokens
        /\ CurrentId \notin DOMAIN last_scan_time)
       => (/\ last'.outcome # "rate_limited"
           /\ GatePasses(last'.verdict) =>
                 \E a \in NewAlerts : a.id = CurrentId /\ a.at = clock)]_vars

\* C5: processing a candidate whose verdict is below the gate (score < 50)
\* leaves scanned_tokens and last_scan_time unchanged.
C5_RejectedLeavesRecordsAlone ==
    [][(Processing /\ last'.verdict.score < SECURITY_GATE)
       => UNCHANGED <<scanned_tokens, last_scan_time>>]_vars

\* A candidate of an identity notified before was evaluated again, failed
\* the gate, and its record still holds the earlier timestamp.
C5_Witness ==
    /\ last.outcome = "rejected"
    /\ last.verdict.score < SECURITY_GATE
    /\ last.id \in scanned_tokens
    /\ last.id \in DOMAIN last_scan_time
    /\ last_scan_time[last.id] < last.now

\* C6: every hand-off to the notifier is made by a step that, in the
\* current cycle, ran the Security Evaluator on the candidate, got a score
\* of at least 50, and found the identity not rate-limited.
C6_AlertOnlyThroughGate ==
    [][(alerts' # alerts)
       => (/\ Processing
           /\ \A a \in NewAlerts :
                 /\ a.id = CurrentId
                 /\ last'.id = a.id
                 /\ last'.scanned
                 /\ last'.scan = scan_number
                 /\ last'.verdict.score >= SECURITY_GATE
                 /\ ~(/\ CurrentId \in DOMAIN last_scan_time
                      /\ clock - last_scan_time[CurrentId] < COOLDOWN))]_vars

\* A candidate with a medium verdict (score 50) was handed to the notifier.
C6_Witness ==
    /\ last.outcome = "alerted"
    /\ last.scanned
    /\ last.verdict.score = SECURITY_GATE
    /\ \E a \in alerts : a.id = last.id /\ a.at = last.now

---------------------------------------------------------------------------
(* Properties of the Security Evaluator, checked under SpecScan *)

\* A check result that is a definite True or False (not None).
Definite(safe) == safe \in {"True", "False"}

\* Checks with a definite result, and checks that passed.
DefiniteCount(p) ==
    (IF Definite(p.hp.safe) THEN 1 ELSE 0)
    + (IF Definite(p.liq.safe) THEN 1 ELSE 0)
PassedCount(p) ==
    (IF p.hp.safe = "True" THEN 1 ELSE 0)
    + (IF p.liq.safe = "True" THEN 1 ELSE 0)

\* C7: when the scan does not raise, passed counts the checks that returned
\* True, attempted counts the checks with a definite result (an unknown
\* check is in neither), and score = passed / attempted x 100, or 0 when
\* attempted = 0; honeypot timeout with low liquidity gives 0 / 1, score 0,
\* high risk.
C7_UnknownChecksExcluded ==
    (pc = "scanned" /\ probe.err = "none") =>
        /\ security.passed = PassedCount(probe)
        /\ security.total = DefiniteCount(probe)
        /\ security.score =
              (IF DefiniteCount(probe) > 0
               THEN (PassedCount(probe) * 100) \div DefiniteCount(probe)
               ELSE 0)
        /\ (probe.hp.msg.text = "Timeout" /\ probe.liq.msg.text = "Low liq")
              => /\ security.passed = 0
                 /\ security.total = 1
                 /\ security.score = 0
                 /\ security.level = "HIGH RISK"

C9_TierFromScore ==
    pc = "scanned" =>
        /\ security.score >= 75
              => security.level = "LOW RISK" /\ security.rec = "SAFE"
        /\ (security.score >= 50 /\ security.score < 75)
              => security.level = "MEDIUM" /\ security.rec = "CAUTION"
        /\ security.score < 50
              => security.level = "HIGH RISK" /\ security.rec = "AVOID"
        /\ (/\ probe.hp.safe = "True"
            /\ probe.liq.safe = "True"
            /\ probe.err = "none")
              => /\ security.passed = 2
                 /\ security.total = 2
                 /\ security.score = 100
                 /\ security.level = "LOW RISK"

\* A verdict of exactly 50 is medium.
C9_Witness ==
    /\ pc = "scanned"
    /\ security.score = 50
    /\ security.level = "MEDIUM"
    /\ security.rec = "CAUTION"

---------------------------------------------------------------------------
(* Properties of the cleanup, checked under SpecCapacity *)

\* The cleanup step of a cycle.
CleaningUp == pc = "process" /\ pc' = "sleep"

\* C10: when scanned_tokens holds more than 1000 identities at the cleanup
\* step, the cleanup leaves at most 500 of them, in the dedup set and in
\* the map of last-notified timestamps alike; and 500 < 1000.
C10_CleanupBoundsTrackedState ==
    /\ [](KEEP < CAPACITY)
    /\ [][(CleaningUp /\ Cardinality(scanned_tokens) > CAPACITY)
          => (/\ Cardinality(scanned_tokens') <= KEEP
              /\ Cardinality(DOMAIN last_scan_time') <= KEEP)]_vars

\* What the cleanup does bound: the dedup set alone.
C10_DedupSetTrimmed ==
    [][(CleaningUp /\ Cardinality(scanned_tokens) > CAPACITY)
       => Cardinality(scanned_tokens') = KEEP]_vars

---------------------------------------------------------------------------
(* Properties of the cycle structure, checked under Spec *)

\* The loop is asleep: after a completed cycle or after an abandoned one.
Asleep == pc \in {"sleep", "retry"}

\* C11: whenever a cycle has ended and the loop sleeps, after a completed
\* cycle or after one abandoned by an error, no last_scan_time entry is as
\* old as the 24 h horizon (lastNotified <= now - 86400).
C11_PurgedEveryCycle ==
    Asleep =>
        \A id \in DOMAIN last_scan_time :
            last_scan_time[id] > clock - HORIZON

\* What the purge does give: after a cycle that ran to completion.
C11_PurgedAfterCompletedCycle ==
    pc = "sleep" =>
        \A id \in DOMAIN last_scan_time :
            last_scan_time[id] > clock - HORIZON

\* C12: there is one cycle at a time.  A cycle starts only from the idle
\* position; the idle position is entered only from a sleep that lasted at
\* least the retry delay; the success sleep is entered only when every
\* candidate of the cycle has been handled, the retry sleep only from inside
\* a cycle; and every candidate handled belongs to the list of the cycle in
\* progress, which no step alters while it is processed.
C12_OneCycleAtATime ==
    [][/\ (scan_number' # scan_number)
            => (pc = "start" /\ pc' = "dex" /\ scan_number' = scan_number + 1)
       /\ (pc' = "start" /\ pc # "start")
            => (Asleep /\ clock' >= clock + RETRY_DELAY)
       /\ (pc' = "sleep" /\ pc # "sleep")
            => (pc = "process" /\ idx > Len(all_opportunities))
       /\ (pc' = "retry" /\ pc # "retry") => pc = "process"
       /\ Processing
            => (/\ last'.scan = scan_number
                /\ last'.id = CurrentId
                /\ all_opportunities' = all_opportunities
                /\ scan_number' = scan_number)]_vars

\* A second cycle is processing its own candidates after the first cycle
\* alerted.
C12_Witness ==
    /\ pc = "process"
    /\ scan_number = 2
    /\ last.scan = 2
    /\ last.outcome = "alerted"
    /\ \E a \in alerts : a.at + SCAN_INTERVAL <= last.now

\* The last instant at which a sleep of the model can end.
LastInstant == FirstAlertAt + HORIZON

\* C13: an error inside a cycle leads to the retry sleep and changes
\* nothing else; the retry sleep always ends (the loop is not terminated),
\* lasts at least 60 s and leads to the idle position, from which the next
\* cycle starts.
C13_ErrorCaughtAtCycleBoundary ==
    /\ []((pc = "retry" /\ clock + RETRY_DELAY <= LastInstant)
            => ENABLED RetrySleep)
    /\ []((pc = "start" /\ scan_number < MaxScans) => ENABLED ScanX402)
    /\ [][/\ (pc' = "retry" /\ pc # "retry")
               => (/\ pc = "process"
                   /\ UNCHANGED <<clock, scan_number, scanned_tokens,
                                  last_scan_time, alerts_sent, alerts>>)
          /\ (pc = "retry" /\ pc' # "retry")
               => (/\ pc' = "start"
                   /\ clock' >= clock + RETRY_DELAY
                   /\ UNCHANGED <<scan_number, scanned_tokens,
                                  last_scan_time, alerts_sent, alerts>>)]_vars

\* A cycle was abandoned while it still had a candidate to handle, after it
\* had alerted for another one.
C13_Witness ==
    /\ pc = "retry"
    /\ idx <= Len(all_opportunities)
    /\ last.outcome = "alerted"
    /\ last.scan = scan_number

\* Addresses used to compare tracking keys.
KeyAddresses == {"0xa", "0xb", "trending_0xa", "0xa_dex_trending", ""}

\* The id of the other kinds for the same address.
OtherKindIds(token) ==
    {token_id(Candidate(k, token.contract)) : k \in Types \ {token.type}}

\* Distinct (kind, address) pairs have distinct token ids.
KeysInjective ==
    \A k1, k2 \in Types : \A a1, a2 \in KeyAddresses :
        token_id(Candidate(k1, a1)) = token_id(Candidate(k2, a2))
           => (k1 = k2 /\ a1 = a2)

\* C16: handling a candidate of identity (k1, a) leaves the tracking state
\* of every other identity as it was; a candidate with no record of its own
\* is not suppressed when the same address is tracked under another kind;
\* and distinct (kind, address) pairs have distinct token ids.
C16_KindsTrackedIndependently ==
    /\ []KeysInjective
    /\ [][Processing =>
            /\ \A id \in (scanned_tokens \cup scanned_tokens') \ {CurrentId} :
                  id \in scanned_tokens <=> id \in scanned_tokens'
            /\ \A id \in (DOMAIN last_scan_time \cup DOMAIN last_scan_time')
                            \ {CurrentId} :
                  /\ id \in DOMAIN last_scan_time
                  /\ id \in DOMAIN last_scan_time'
                  /\ last_scan_time'[id] = last_scan_time[id]
            /\ (/\ CurrentId \notin scanned_tokens
                /\ CurrentId \notin DOMAIN last_scan_time
                /\ \E o \in OtherKindIds(all_opportunities[idx]) :
                      o \in DOMAIN last_scan_time)
                  => last'.outcome \in {"alerted", "rejected"}]_vars

\* The same address was notified under both kinds within one cooldown.
C16_Witness ==
    \E a, b \in alerts :
        /\ a.id = token_id(Candidate("x402_trending", "0xa"))
        /\ b.id = token_id(Candidate("dex_trending", "0xa"))
        /\ b.at - a.at < COOLDOWN
        /\ b.at > a.at
        /\ last_scan_time[a.id] = a.at
        /\ last_scan_time[b.id] = b.at

---------------------------------------------------------------------------
(* Properties of the adapters inside a cycle, checked under SpecCycle *)

\* The candidates of one kind in a list.
OfType(list, type) == SelectSeq(list, LAMBDA c : c.type = type)

\* Both adapters have returned and no candidate has been handled yet: the
\* clock is still the instant of the calls.
ListComplete == pc = "process" /\ idx = 1

\* C14: an adapter whose provider call fails returns the empty list, and
\* the step that calls it leads on to the next step of the cycle, never to
\* the error branch; when one adapter failed, the cycle's list is exactly
\* what the other adapter returned, and each of its candidates that the
\* rate limiter lets through is evaluated and, with a passing verdict,
\* handed to the notifier.
C14_AdaptersFailSoft ==
    /\ [](/\ (pc \in {"dex", "process"} /\ probe.x402.fail # "none")
               => OfType(all_opportunities, "x402_trending") = <<>>
          /\ (pc = "process" /\ probe.dex.fail # "none")
               => OfType(all_opportunities, "dex_trending") = <<>>
          /\ (ListComplete /\ probe.x402.fail # "none")
               => all_opportunities =
                     Tracked(scan_dexscreener_trending(probe.dex, clock))
          /\ (ListComplete /\ probe.dex.fail # "none")
               => all_opportunities =
                     Tracked(scan_x402_trending(probe.x402)))
    /\ [][/\ (pc = "start" /\ pc' # pc) => pc' = "dex"
          /\ (pc = "dex" /\ pc' # pc) => pc' = "process"
          /\ (Processing /\ (probe.x402.fail # "none"
                             \/ probe.dex.fail # "none"))
               => (/\ last'.outcome # "not_new"
                   /\ last'.outcome = "rate_limited"
                         => (/\ CurrentId \in DOMAIN last_scan_time
                             /\ clock - last_scan_time[CurrentId] < COOLDOWN)
                   /\ (last'.scanned /\ GatePasses(last'.verdict))
                         => \E a \in NewAlerts : a.id = CurrentId)]_vars

\* The x402 provider was down and a DexScreener candidate of the same cycle
\* was delivered.
C14_Witness ==
    /\ probe.x402.fail = "timeout"
    /\ probe.dex.fail = "none"
    /\ last.outcome = "alerted"
    /\ \E a \in alerts :
          /\ a.id = token_id(Candidate("dex_trending", "0xa"))
          /\ a.ok

\* Lowercase of a hexadecimal character and of an address.
LowerChar(ch) ==
    CASE ch = "A" -> "a" [] ch = "B" -> "b" [] ch = "C" -> "c"
      [] ch = "D" -> "d" [] ch = "E" -> "e" [] ch = "F" -> "f"
      [] ch = "X" -> "x" [] OTHER -> ch

RECURSIVE Lower(_)
Lower(s) ==
    IF Len(s) = 0 THEN ""
    ELSE LowerChar(SubSeq(s, 1, 1)) \o Lower(SubSeq(s, 2, Len(s)))

\* Addresses the answers of a cycle use.
CycleAddresses == {"0xa", "0xA"}

\* Two token ids of one kind whose addresses differ at most in letter case.
SameIdentity(id1, id2) ==
    \E k \in Types : \E c1, c2 \in CycleAddresses :
        /\ id1 = token_id(Candidate(k, c1))
        /\ id2 = token_id(Candidate(k, c2))
        /\ Lower(c1) = Lower(c2)

\* C20: every candidate carries its address in lowercase, and two hand-offs
\* to the notifier for the same kind and for addresses that differ at most
\* in letter case are at least 3600 s apart.
C20_AddressCaseInsensitive ==
    /\ \A i \in 1..Len(all_opportunities) :
          all_opportunities[i].contract = Lower(all_opportunities[i].contract)
    /\ \A a, b \in alerts :
          (a.n < b.n /\ SameIdentity(a.id, b.id)) => b.at - a.at >= COOLDOWN

---------------------------------------------------------------------------
(* Properties of the adapters, checked under SpecAdapter *)

\* An adapter has been called and all_opportunities holds what it returned.
Called == pc \in {"x402_called", "dex_called"}

\* The raw pairs the DexScreener adapter was given, and the time of the
\* call in milliseconds.
Pairs == probe.dex.pairs
CalledAtMs == last.now * 1000

\* C15: no candidate an adapter returns has an empty or missing contract
\* address.
C15_NoEmptyContract ==
    Called =>
        \A i \in 1..Len(all_opportunities) :
            all_opportunities[i].contract \notin {"", Null, Missing}

\* A pair that passes the filter but has no address was dropped.
C15_Witness ==
    /\ pc = "dex_called"
    /\ Len(Pairs) = 1
    /\ ~Pairs[1].raises
    /\ DexAdmits(Pairs[1], CalledAtMs)
    /\ Pairs[1].address = Missing
    /\ all_opportunities = <<>>

\* C17: calling an adapter again on the same answer, at any later time,
\* returns what the earlier call returned.
C17_AdaptersArePure ==
    [][(Called /\ pc' = pc /\ clock' = clock)
       => all_opportunities' = all_opportunities]_vars

\* What holds: the x402 adapter does not depend on the time of the call.
C17_X402IsPure ==
    [][(pc = "x402_called" /\ pc' = pc /\ clock' = clock)
       => all_opportunities' = all_opportunities]_vars

\* The three admission rules as stated, with the thresholds of the code.
StatedRules(pair, now_ms) ==
    LET new      == pair.created > now_ms - DAY_MS
        liquid   == pair.liq > DEX_LIQ_FLOOR
        microcap == DEX_MCAP_LOW < pair.mcap /\ pair.mcap < DEX_MCAP_HIGH
        volume   == pair.vol > DEX_VOL_FLOOR
        pumping  == pair.change > DEX_PUMP
    IN  \/ (new /\ liquid)
        \/ (microcap /\ liquid /\ (volume \/ pumping))
        \/ (pumping /\ liquid)

\* A candidate of the returned list comes from this raw pair.
ReturnedFor(pair) ==
    \E j \in 1..Len(all_opportunities) :
        /\ all_opportunities[j].contract = pair.address
        /\ all_opportunities[j].mcap = pair.mcap
        /\ all_opportunities[j].liq = pair.liq

\* A raw pair with a usable address on which nothing raises.
Usable(pair) == ~pair.raises /\ pair.address \notin {"", Null, Missing}

\* C18: of an answer short enough for the cap not to matter, a raw pair
\* with a usable address is returned as a candidate exactly when it
\* satisfies one of the three stated rules.
C18_AdmissionRules ==
    (pc = "dex_called" /\ probe.dex.fail = "none" /\ Len(Pairs) <= DEX_CAP)
       => \A i \in 1..Len(Pairs) :
             Usable(Pairs[i])
                => (ReturnedFor(Pairs[i])
                       <=> StatedRules(Pairs[i], CalledAtMs))

\* One direction holds: what the adapter returns satisfies a stated rule.
C18_AdmittedSatisfyARule ==
    (pc = "dex_called" /\ probe.dex.fail = "none" /\ Len(Pairs) <= DEX_CAP)
       => \A i \in 1..Len(Pairs) :
             (Usable(Pairs[i]) /\ ReturnedFor(Pairs[i]))
                => StatedRules(Pairs[i], CalledAtMs)

\* The stated order: new launches first, then ascending market cap.
StatedOrder(c, d) ==
    \/ (c.is_new /\ ~d.is_new)
    \/ (c.is_new = d.is_new /\ c.mcap <= d.mcap)

\* C19: the returned list has at most 10 candidates, is in the stated
\* order, and every raw pair that passes the filter and is not returned
\* comes after all the returned ones in that order.
C19_NewestFirstTopTen ==
    (pc = "dex_called" /\ probe.dex.fail = "none")
       => /\ Len(all_opportunities) <= DEX_CAP
          /\ \A i, j \in 1..Len(all_opportunities) :
                i < j => StatedOrder(all_opportunities[i],
                                     all_opportunities[j])
          /\ \A i \in 1..Len(Pairs) :
                (/\ Usable(Pairs[i])
                 /\ DexAdmits(Pairs[i], CalledAtMs)
                 /\ ~ReturnedFor(Pairs[i]))
                   => /\ Len(all_opportunities) = DEX_CAP
                      /\ \A j \in 1..Len(all_opportunities) :
                            StatedOrder(all_opportunities[j],
                                        DexCandidate(Pairs[i], CalledAtMs))

\* What holds: at most 10 candidates, in ascending market cap.
C19_AscendingMcapTopTen ==
    (pc = "dex_called" /\ probe.dex.fail = "none")
       => /\ Len(all_opportunities) <= DEX_CAP
          /\ \A i, j \in 1..Len(all_opportunities) :
                i < j => all_opportunities[i].mcap <= all_opportunities[j].mcap

---------------------------------------------------------------------------
(* Further properties of the Security Evaluator, checked under SpecScan *)

\* Checks that returned False (a definite failure).
FailedCount(p) ==
    (IF p.hp.safe = "False" THEN 1 ELSE 0)
    + (IF p.liq.safe = "False" THEN 1 ELSE 0)

\* C21: when the scan does not raise, every check that returned False is
\* counted in total along with the passed ones; and when the liquidity
\* check returned False (too little liquidity, or no pool on Base at all)
\* the score is below 100 and the tier is not low risk, whatever the
\* honeypot check returned.
C21_FailedCheckIsAttempted ==
    (pc = "scanned" /\ probe.err = "none") =>
        /\ security.total >= security.passed + FailedCount(probe)
        /\ probe.liq.safe = "False"
              => /\ security.score < 100
                 /\ security.level # "LOW RISK"

\* What holds: a failed check whose message does not start with the cross
\* mark is counted.
C21_WarnedFailureIsAttempted ==
    (pc = "scanned" /\ probe.err = "none") =>
        /\ (probe.hp.safe = "False" /\ probe.liq.msg.icon # "cross")
              => security.total = 2
        /\ (probe.liq.safe = "False" /\ probe.liq.msg.icon # "cross")
              => /\ security.score < 100
                 /\ security.level # "LOW RISK"

---------------------------------------------------------------------------
(* Further properties of the cleanup, checked under SpecCapacity *)

\* C24: when the cleanup trims scanned_tokens, no identity it removes was
\* notified more recently than an identity it keeps.
C24_OldestEvictedFirst ==
    [][(CleaningUp /\ Cardinality(scanned_tokens) > CAPACITY)
       => \A gone \in scanned_tokens \ scanned_tokens' :
             \A kept \in scanned_tokens' :
                LastAlert(last_scan_time, gone)
                   <= LastAlert(last_scan_time, kept)]_vars

---------------------------------------------------------------------------
(* Further properties of the orchestrator, checked under Spec *)

\* The identity the step handles has a lastNotified inside the cooldown.
InCooldown ==
    /\ CurrentId \in DOMAIN last_scan_time
    /\ clock - last_scan_time[CurrentId] < COOLDOWN

\* C22: a step that handles a candidate runs the Security Evaluator exactly
\* when the candidate's identity is not inside its cooldown; the gate
\* decision and the hand-off to the notifier use the verdict of that run,
\* made in the cycle in progress.
C22_EvaluatedIffNotRateLimited ==
    [][Processing =>
          /\ last'.scanned <=> ~InCooldown
          /\ last'.scanned => last'.scan = scan_number
          /\ (NewAlerts # {})
                => (last'.scanned /\ GatePasses(last'.verdict))]_vars

\* What holds: a candidate inside its cooldown is never evaluated, and
\* every hand-off follows an evaluation made by the same step.
C22_RateLimitedNeverEvaluated ==
    [][Processing =>
          /\ InCooldown => ~last'.scanned
          /\ last'.scanned => last'.scan = scan_number
          /\ (NewAlerts # {})
                => (last'.scanned /\ GatePasses(last'.verdict))]_vars

---------------------------------------------------------------------------
(* Progress of the loop, checked under SpecLive *)

\* A cycle is in progress.
Scanning == pc \in {"dex", "process"}

\* The sleep under way can end within the instants of the model.
CanWake ==
    \/ (pc = "sleep" /\ clock + SCAN_INTERVAL <= LastInstant)
    \/ (pc = "retry" /\ clock + RETRY_DELAY <= LastInstant)

\* C23: every cycle that starts ends in a sleep, after its cleanup or after
\* an error; every sleep ends and leaves the loop idle, after at least
\* 300 s on success and 60 s on failure; from idle the next cycle starts;
\* and the loop always has a step to take (up to MaxScans cycles and the
\* last instant of the model).
C23_IdleAndScanningAlternate ==
    /\ Scanning ~> Asleep
    /\ (Asleep /\ CanWake) ~> (pc = "start")
    /\ (pc = "start" /\ scan_number < MaxScans) ~> Scanning
    /\ []((scan_number < MaxScans /\ clock + SCAN_INTERVAL <= LastInstant)
             => ENABLED Next)
    /\ [][/\ (pc = "sleep" /\ pc' # pc)
               => (pc' = "start" /\ clock' >= clock + SCAN_INTERVAL)
          /\ (pc = "retry" /\ pc' # pc)
               => (pc' = "start" /\ clock' >= clock + RETRY_DELAY)
          /\ (Scanning /\ pc' # pc) => (pc' \in {"process", "sleep", "retry"})
          /\ (pc = "start" /\ pc' # pc) => Scanning']_vars

\* The cycle after a completed cycle and its sleep is under way and has
\* alerted.
C23_Witness ==
    /\ Scanning
    /\ scan_number = MaxScans
    /\ clock > FirstAlertAt
    /\ last.scan = MaxScans
    /\ last.outcome = "alerted"

=============================================================================
